---- MODULE Spec2Model ----
(***************************************************************************)
(* Model of the two programs of the repository:                            *)
(*   - the transit router (src/projeto2.c): adjacency-list graph with      *)
(*     weighted directed edges, dijkstra, print_path;                      *)
(*   - the maze solver (src/unnamed/part_000): adjacency-list graph with   *)
(*     bidirectional edges, FIFO queue, bfs, dfs_recursive/dfs, print_path.*)
(* A linked adjacency list is modelled as the sequence of its nodes, head  *)
(* first; a list pointer (current, temp) as the suffix it points at, the   *)
(* empty sequence being NULL.  Loops are unrolled into one action per      *)
(* iteration so that intermediate states are visible.                      *)
(***************************************************************************)
EXTENDS Integers, Sequences, FiniteSets, TLC

VARIABLES prog, num_nodes, adj, pc, start_node, end_node,
          dist, parent, visited, count, u, current,
          queue, path_found_end_node, stack, ret, out,
          maze, row, col, dir, node_names, stderr, calls, log

graphVars == <<prog, num_nodes, adj>>
runVars   == <<dist, parent, visited, count, u, current>>
mazeVars  == <<queue, path_found_end_node, stack, ret>>
\* the maze main's grid and the position of its construction loops
gridVars  == <<maze, row, col, dir>>
\* the transit graph's node_names, the text written to stderr and the
\* construction calls made so far
buildVars == <<node_names, stderr, calls>>
vars == <<prog, num_nodes, adj, pc, start_node, end_node,
          dist, parent, visited, count, u, current,
          queue, path_found_end_node, stack, ret, out,
          maze, row, col, dir, node_names, stderr, calls, log>>

-----------------------------------------------------------------------------
(* Bounds of the model *)

\* largest node count handed to create_graph
MaxNodes == 3
\* largest number of add_edge calls made while building a graph
MaxEdges == 3
\* largest edge weight handed to the transit add_edge
MaxWeight == 2

(* Program constants *)

\* #define INFINITY INT_MAX
INFINITY == 2147483647
\* #define MAX_NODES 20 (transit): capacity of print_path's path[] buffer
MAX_NODES == 20
\* #define MAX_ROWS 10, MAX_COLS 10 (maze)
MAX_ROWS == 10
MAX_COLS == 10
\* #define MAX_NODES (MAX_ROWS * MAX_COLS) (maze)
MAZE_MAX_NODES == MAX_ROWS * MAX_COLS

Nodes(n) == 0 .. (n - 1)
Weights == 0 .. MaxWeight

\* the "no parent" / "not found" sentinel
NONE == -1

-----------------------------------------------------------------------------
(* 32-bit int arithmetic of dist[u] + weight (weight >= 0, dist[u] >= 0).   *)

\* TRUE when the C addition a + b leaves the range of int
add_overflows(a, b) == b > 0 /\ a > INFINITY - b

\* the two's-complement result of a + b, computed without leaving 32 bits
add_wrapped(a, b) ==
    IF add_overflows(a, b)
    THEN ((a - INFINITY) - 1) + ((b - INFINITY) - 1)
    ELSE a + b

-----------------------------------------------------------------------------
(* GraphStore *)

\* create_graph: every adjacency list starts NULL
create_graph(n) == [i \in Nodes(n) |-> <<>>]

\* a char* is NULL (the empty sequence) or points at one copied text
NULL == <<>>
\* create_graph: graph->node_names[i] = NULL for every node
create_names(n) == [i \in Nodes(n) |-> NULL]

\* transit create_adj_list_node
create_adj_list_node(dest, weight) == [dest |-> dest, weight |-> weight]

\* add_edge that links the new node behind the last node of src's list
add_edge_at_tail(a, src, dest, weight) ==
    [a EXCEPT ![src] = Append(a[src], create_adj_list_node(dest, weight))]

\* transit add_edge: the new node is linked in front of src's list
add_edge(a, src, dest, weight) ==
    [a EXCEPT ![src] = <<create_adj_list_node(dest, weight)>> \o a[src]]

\* maze add_edge: dest in front of src's list, then src in front of dest's
maze_link_front(a, src, dest) == [a EXCEPT ![src] = <<dest>> \o a[src]]
maze_add_edge(a, src, dest) ==
    LET a1 == maze_link_front(a, src, dest)
    IN  [a1 EXCEPT ![dest] = <<src>> \o a1[dest]]

\* the line set_node_name writes to stderr (accents dropped)
invalid_index_message == "Erro: Indice de no invalido."

\* set_node_name with the range test left out
set_node_name_unchecked(names, n, node_index, name) ==
    [node_names |-> [i \in DOMAIN names |->
                        IF i = node_index THEN <<name>> ELSE names[i]],
     err |-> <<>>]

\* set_node_name: an index outside [0, num_nodes) writes the message and
\* returns; otherwise node_names[node_index] points at a fresh copy of name
set_node_name(names, n, node_index, name) ==
    IF node_index < 0 \/ node_index >= n
    THEN [node_names |-> names, err |-> <<invalid_index_message>>]
    ELSE [node_names |-> [names EXCEPT ![node_index] = <<name>>], err |-> <<>>]

\* main's station_names[]
station_names ==
    <<"Centro", "Rodoviaria", "Shopping", "Parque", "Hospital",
      "Aeroporto", "Praia", "Bairro Norte", "Bairro Sul", "Terminal Central">>

\* main's loop for (i = 0; i < num_stations; i++)
\*     set_node_name(graph, i, station_names[i]);
\* from index i on: the names and the lines written to stderr
RECURSIVE name_stations(_, _, _, _)
name_stations(names, err, n, i) ==
    IF i >= n THEN [node_names |-> names, err |-> err]
    ELSE LET r == set_node_name(names, n, i, station_names[i + 1])
         IN  name_stations(r.node_names, err \o r.err, n, i + 1)

\* free_graph: every list node, every name, both arrays and the Graph are
\* freed; nothing of the graph is left (neither program reads it afterwards)
free_graph == [num_nodes |-> 0, adj |-> <<>>, node_names |-> <<>>]

RECURSIVE SumLen(_, _)
SumLen(a, n) == IF n = 0 THEN 0 ELSE Len(a[n - 1]) + SumLen(a, n - 1)

\* number of adjacency entries stored in the graph
NumEntries == SumLen(adj, num_nodes)

-----------------------------------------------------------------------------
(* Shortest-Path Engine: dijkstra (src/projeto2.c) *)

\* the selection scan with the comparison turned round (>= for <=)
RECURSIVE min_scan_reversed(_, _, _, _, _, _)
min_scan_reversed(n, d, vis, v, min_dist, best) ==
    IF v >= n THEN best
    ELSE IF ~vis[v] /\ d[v] >= min_dist
         THEN min_scan_reversed(n, d, vis, v + 1, d[v], v)
         ELSE min_scan_reversed(n, d, vis, v + 1, min_dist, best)

\* the selection scan: for (v = 0; v < num_nodes; v++)
\*     if (!visited[v] && dist[v] <= min_dist) { min_dist = dist[v]; u = v; }
RECURSIVE min_scan(_, _, _, _, _, _)
min_scan(n, d, vis, v, min_dist, best) ==
    IF v >= n THEN best
    ELSE IF ~vis[v] /\ d[v] <= min_dist
         THEN min_scan(n, d, vis, v + 1, d[v], v)
         ELSE min_scan(n, d, vis, v + 1, min_dist, best)

\* a selection that takes the first unsettled node whatever its distance
select_first_unsettled(n, d, vis) ==
    IF \E v \in Nodes(n) : ~vis[v]
    THEN CHOOSE v \in Nodes(n) : ~vis[v] /\ \A w \in Nodes(n) : ~vis[w] => v <= w
    ELSE NONE

\* int min_dist = INFINITY; int u = -1; followed by the scan
select_min(n, d, vis) == min_scan(n, d, vis, 0, INFINITY, NONE)

\* the guard of the relaxation, for an addition that stays in range
relax_guard(d, vis, uu, v, weight) ==
    ~vis[v] /\ d[uu] # INFINITY /\ d[uu] + weight < d[v]

\* relax without the dist[u] != INFINITY test: the sum wraps for an
\* unreached u
relax_from_unreached(d, p, vis, uu, e) ==
    LET v == e.dest
        sum == add_wrapped(d[uu], e.weight)
    IN  IF ~vis[v] /\ sum < d[v]
        THEN {[dist |-> [d EXCEPT ![v] = sum], parent |-> [p EXCEPT ![v] = uu]]}
        ELSE {[dist |-> d, parent |-> p]}

\* relax that only gives a first distance and never improves a finite one
relax_first_only(d, p, vis, uu, e) ==
    LET v == e.dest
    IN  IF ~vis[v] /\ d[uu] # INFINITY /\ d[v] = INFINITY
        THEN {[dist |-> [d EXCEPT ![v] = d[uu] + e.weight],
               parent |-> [p EXCEPT ![v] = uu]]}
        ELSE {[dist |-> d, parent |-> p]}

\* relax with the edge weight compared and stored in place of dist[u] + weight
relax_weight_only(d, p, vis, uu, e) ==
    LET v == e.dest
    IN  IF ~vis[v] /\ d[uu] # INFINITY /\ e.weight < d[v]
        THEN {[dist |-> [d EXCEPT ![v] = e.weight],
               parent |-> [p EXCEPT ![v] = uu]]}
        ELSE {[dist |-> d, parent |-> p]}

\* the condition without its dist[u] != INFINITY operand: the sum is
\* evaluated for every unvisited v
sum_evaluated_unguarded(d, vis, uu, e) ==
    IF vis[e.dest] THEN {} ELSE {<<d[uu], e.weight>>}

\* the operands with which dist[u] + weight is evaluated in
\*   !visited[v] && dist[u] != INFINITY && dist[u] + weight < dist[v]
\* none when an earlier operand of && is false
sum_evaluated(d, vis, uu, e) ==
    IF vis[e.dest] \/ d[uu] = INFINITY THEN {} ELSE {<<d[uu], e.weight>>}

\* relax that writes parent[v] only while v has none: a later, shorter way
\* to v lowers dist[v] and leaves the old predecessor
relax_parent_once(d, p, vis, uu, e) ==
    LET v == e.dest
    IN  IF ~vis[v] /\ d[uu] # INFINITY /\ d[uu] + e.weight < d[v]
        THEN {[dist |-> [d EXCEPT ![v] = d[uu] + e.weight],
               parent |-> IF p[v] = NONE THEN [p EXCEPT ![v] = uu] ELSE p]}
        ELSE {[dist |-> d, parent |-> p]}

\* One execution of the body of while (current): the possible (dist, parent)
\* pairs afterwards.  A signed overflow of dist[u] + weight is undefined
\* behaviour: the build may take the branch with the wrapped sum or skip it.
relax(d, p, vis, uu, e) ==
    LET v == e.dest
        done == [dist |-> [d EXCEPT ![v] = add_wrapped(d[uu], e.weight)],
                 parent |-> [p EXCEPT ![v] = uu]]
        skip == [dist |-> d, parent |-> p]
    IN  IF sum_evaluated(d, vis, uu, e) = {} THEN {skip}
        ELSE IF add_overflows(d[uu], e.weight) THEN {skip, done}
        ELSE IF relax_guard(d, vis, uu, v, e.weight) THEN {done}
        ELSE {skip}

-----------------------------------------------------------------------------
(* Path Reconstructor: print_path of both programs *)

\* the nodes printed in the order they were stored: from path[0] upwards
printed_in_stored_order(s) == s

\* the printing loop for (i = path_len - 1; i >= 0; i--): last stored first
Reverse(s) == [i \in 1 .. Len(s) |-> s[Len(s) + 1 - i]]

nothing_printed == [kind |-> "none", path |-> <<>>]
no_path        == [kind |-> "nopath", path |-> <<>>]
\* the write path[path_len++] went past the end of path[]: undefined behaviour
undefined_out  == [kind |-> "undefined", path |-> <<>>]

\* the backward walk as a do-while: the first node is stored before any test
walk_back_do_while(p, start, cur, path, cap) ==
    IF cur = NONE THEN undefined_out
    ELSE LET nxt == p[cur]
             got == Append(path, cur)
         IN  IF nxt # NONE /\ nxt # start
             THEN [kind |-> "path", path |-> Reverse(got \o <<nxt, start>>)]
             ELSE [kind |-> "path", path |-> Reverse(Append(got, start))]

\* the backward walk without path[path_len++] = start_node after the loop
RECURSIVE walk_back_without_start(_, _, _, _, _)
walk_back_without_start(p, start, cur, path, cap) ==
    IF cur # NONE /\ cur # start
    THEN IF Len(path) >= cap THEN undefined_out
         ELSE walk_back_without_start(p, start, p[cur], Append(path, cur), cap)
    ELSE [kind |-> "path", path |-> Reverse(path)]

\* while (current != -1 && current != start_node)
\*     { path[path_len++] = current; current = parent[current]; }
\* path[path_len++] = start_node;
\* then the nodes are printed from path[path_len - 1] down to path[0].
RECURSIVE walk_back(_, _, _, _, _)
walk_back(p, start, cur, path, cap) ==
    IF cur # NONE /\ cur # start
    THEN IF Len(path) >= cap THEN undefined_out
         ELSE walk_back(p, start, p[cur], Append(path, cur), cap)
    ELSE IF Len(path) >= cap THEN undefined_out
         ELSE [kind |-> "path", path |-> Reverse(Append(path, start))]

\* transit print_path(graph, parent, start_node, end_node)
print_path(p, start, end) ==
    IF end = start THEN [kind |-> "same", path |-> <<start>>]
    ELSE IF p[end] = NONE /\ end # start THEN no_path
    ELSE walk_back(p, start, end, <<>>, MAX_NODES)

\* maze print_path(parent, start_node, end_node, num_cols)
maze_print_path(p, start, end) ==
    IF end = NONE THEN no_path
    ELSE walk_back(p, start, end, <<>>, MAZE_MAX_NODES)

\* main's messages for an index outside [0, num_stations) (accents dropped)
invalid_start_out == [kind |-> "Indice de partida invalido.", path |-> <<>>]
invalid_end_out   == [kind |-> "Indice de destino invalido.", path |-> <<>>]
\* the maze main's message when 'S' or 'E' is not in the grid
maze_error_out ==
    [kind |-> "Erro: Ponto de partida 'S' ou de chegada 'E' nao encontrado no labirinto.",
     path |-> <<>>]

\* what a finished traversal handed back: the record kept in log
run_result(alg, start, end, d, p, o) ==
    [alg |-> alg, start |-> start, end |-> end,
     dist |-> d, parent |-> p, out |-> o]

-----------------------------------------------------------------------------
(* Initial state: main after create_graph(num_nodes).  The transit main     *)
(* goes on with its naming loop, the maze main with its add_edge calls.     *)

\* where main stands after create_graph
after_create(p) == IF p = "transit" THEN "main_names" ELSE "build"

InitRun ==
    /\ pc = after_create(prog)
    /\ start_node = NONE /\ end_node = NONE
    /\ dist = <<>> /\ parent = <<>> /\ visited = <<>>
    /\ count = 0 /\ u = NONE /\ current = <<>>
    /\ queue = <<>> /\ path_found_end_node = NONE
    /\ stack = <<>> /\ ret = FALSE
    /\ out = nothing_printed
    /\ maze = <<>> /\ row = 0 /\ col = 0 /\ dir = 0
    /\ stderr = <<>> /\ calls = <<>> /\ log = <<>>

Init ==
    /\ prog \in {"transit", "maze"}
    /\ num_nodes \in 1 .. MaxNodes
    /\ adj = create_graph(num_nodes)
    /\ node_names = (IF prog = "transit" THEN create_names(num_nodes) ELSE <<>>)
    /\ InitRun

-----------------------------------------------------------------------------
(* Transit program *)

\* main: the loop that names every station
MainSetNames ==
    /\ prog = "transit" /\ pc = "main_names"
    /\ LET r == name_stations(node_names, <<>>, num_nodes, 0)
       IN  node_names' = r.node_names /\ stderr' = stderr \o r.err
    /\ pc' = "build"
    /\ UNCHANGED <<prog, num_nodes, adj, start_node, end_node, out, calls, log>>
    /\ UNCHANGED runVars /\ UNCHANGED mazeVars /\ UNCHANGED gridVars

\* main: one add_edge(graph, src, dest, weight) call
AddEdge(src, dest, weight) ==
    /\ prog = "transit" /\ pc = "build"
    /\ adj' = add_edge(adj, src, dest, weight)
    /\ UNCHANGED <<prog, num_nodes, pc, start_node, end_node, out>>
    /\ UNCHANGED runVars /\ UNCHANGED mazeVars
    /\ UNCHANGED gridVars /\ UNCHANGED buildVars /\ UNCHANGED log

\* dijkstra's first loop without dist[i] = INFINITY: dist keeps what the
\* caller's array held
dijkstra_init_keep_dist(n, s, d, p, vis) ==
    [dist |-> [[i \in Nodes(n) |-> IF i \in DOMAIN d THEN d[i] ELSE INFINITY]
                  EXCEPT ![s] = 0],
     visited |-> [i \in Nodes(n) |-> FALSE],
     parent |-> [i \in Nodes(n) |-> NONE]]

\* dijkstra's first loop and dist[start_node] = 0, given the arrays as they
\* are at the call (d and p are the caller's, vis is the new local array):
\* every element is overwritten
dijkstra_init(n, s, d, p, vis) ==
    [dist |-> [[i \in Nodes(n) |-> INFINITY] EXCEPT ![s] = 0],
     visited |-> [i \in Nodes(n) |-> FALSE],
     parent |-> [i \in Nodes(n) |-> NONE]]

\* dijkstra(graph, s, dist, parent) up to its main loop
DijkstraCall(s) ==
    /\ start_node' = s
    /\ LET r == dijkstra_init(num_nodes, s, dist, parent, visited)
       IN  dist' = r.dist /\ visited' = r.visited /\ parent' = r.parent
    /\ count' = 0
    /\ pc' = "dijkstra_loop"
    /\ UNCHANGED <<end_node, u, current, out>>
    /\ UNCHANGED graphVars /\ UNCHANGED mazeVars
    /\ UNCHANGED gridVars /\ UNCHANGED buildVars /\ UNCHANGED log

\* if (index < 0 || index >= num_stations)
index_invalid(index, n) == index < 0 \/ index >= n

\* the branch { printf(message); free_graph(graph); return 1; } of main
MainExit(message) ==
    /\ out' = message
    /\ num_nodes' = free_graph.num_nodes
    /\ adj' = free_graph.adj
    /\ node_names' = free_graph.node_names
    /\ pc' = "transit_exit"

\* main: scanf("%d", &start_index) and its range test; the add_edge calls
\* are over
MainReadStart(s) ==
    /\ prog = "transit" /\ pc = "build"
    /\ start_node' = s
    /\ IF index_invalid(s, num_nodes)
       THEN MainExit(invalid_start_out)
       ELSE /\ pc' = "read_end"
            /\ UNCHANGED <<num_nodes, adj, node_names, out>>
    /\ UNCHANGED <<prog, end_node, stderr, calls, log>>
    /\ UNCHANGED runVars /\ UNCHANGED mazeVars /\ UNCHANGED gridVars

\* main: scanf("%d", &end_index) and its range test
MainReadEnd(e) ==
    /\ pc = "read_end"
    /\ end_node' = e
    /\ IF index_invalid(e, num_nodes)
       THEN MainExit(invalid_end_out)
       ELSE /\ pc' = "dijkstra_call"
            /\ UNCHANGED <<num_nodes, adj, node_names, out>>
    /\ UNCHANGED <<prog, start_node, stderr, calls, log>>
    /\ UNCHANGED runVars /\ UNCHANGED mazeVars /\ UNCHANGED gridVars

\* main calls dijkstra(graph, start_index, dist, parent); dijkstra initialises
\* dist, visited, parent and sets dist[start_node] = 0
DijkstraStart == pc = "dijkstra_call" /\ DijkstraCall(start_node)

\* one test of for (count = 0; count < num_nodes - 1; count++), the scan,
\* the break and visited[u] = true
DijkstraSelect ==
    /\ pc = "dijkstra_loop"
    /\ IF count < num_nodes - 1
       THEN LET uu == select_min(num_nodes, dist, visited)
            IN  IF uu = NONE
                THEN /\ pc' = "dijkstra_return"
                     /\ UNCHANGED <<visited, u, current>>
                ELSE /\ visited' = [visited EXCEPT ![uu] = TRUE]
                     /\ u' = uu
                     /\ current' = adj[uu]
                     /\ pc' = "dijkstra_relax"
       ELSE /\ pc' = "dijkstra_return"
            /\ UNCHANGED <<visited, u, current>>
    /\ UNCHANGED <<start_node, end_node, dist, parent, count, out>>
    /\ UNCHANGED graphVars /\ UNCHANGED mazeVars
    /\ UNCHANGED gridVars /\ UNCHANGED buildVars /\ UNCHANGED log

\* one test of while (current) and, when it holds, one execution of its body;
\* when it fails, the count++ of the enclosing for
DijkstraRelax ==
    /\ pc = "dijkstra_relax"
    /\ IF current = <<>>
       THEN /\ count' = count + 1
            /\ pc' = "dijkstra_loop"
            /\ UNCHANGED <<dist, parent, current>>
       ELSE /\ \E r \in relax(dist, parent, visited, u, Head(current)) :
                 dist' = r.dist /\ parent' = r.parent
            /\ current' = Tail(current)
            /\ UNCHANGED <<count, pc>>
    /\ UNCHANGED <<start_node, end_node, visited, u, out>>
    /\ UNCHANGED graphVars /\ UNCHANGED mazeVars
    /\ UNCHANGED gridVars /\ UNCHANGED buildVars /\ UNCHANGED log

\* main after dijkstra: if (dist[end_index] != INFINITY) print_path(...)
unreachable_out == [kind |-> "unreachable", path |-> <<>>]
main_report(d, p, start, end) ==
    IF d[end] # INFINITY THEN print_path(p, start, end) ELSE unreachable_out

MainReport ==
    /\ pc = "dijkstra_return"
    /\ out' = main_report(dist, parent, start_node, end_node)
    /\ log' = Append(log, run_result("dijkstra", start_node, end_node,
                                     dist, parent, out'))
    /\ pc' = "transit_report"
    /\ UNCHANGED <<start_node, end_node>>
    /\ UNCHANGED graphVars /\ UNCHANGED runVars /\ UNCHANGED mazeVars
    /\ UNCHANGED gridVars /\ UNCHANGED buildVars

\* main's last statements: free_graph(graph); return 0;
MainFreeGraph ==
    /\ pc = "transit_report"
    /\ num_nodes' = free_graph.num_nodes
    /\ adj' = free_graph.adj
    /\ node_names' = free_graph.node_names
    /\ pc' = "transit_done"
    /\ UNCHANGED <<prog, start_node, end_node, out, stderr, calls, log>>
    /\ UNCHANGED runVars /\ UNCHANGED mazeVars /\ UNCHANGED gridVars

\* the values scanf stores into start_index and end_index: any index of the
\* graph, one below and one above
Inputs(n) == -1 .. n

\* main's steps from its start index on
MainRun ==
    \/ \E s \in Inputs(num_nodes) : MainReadStart(s)
    \/ \E e \in Inputs(num_nodes) : MainReadEnd(e)
    \/ DijkstraStart
    \/ DijkstraSelect
    \/ DijkstraRelax
    \/ MainReport
    \/ MainFreeGraph

NextTransit ==
    \/ MainSetNames
    \/ \E src, dest \in Nodes(num_nodes), weight \in Weights :
          NumEntries < MaxEdges /\ AddEdge(src, dest, weight)
    \/ MainRun

-----------------------------------------------------------------------------
(* Maze program: FIFO queue *)

\* enqueue that moves rear without linking the new node behind the old rear:
\* a node added to a non-empty queue is never dequeued
enqueue_unlinked(q, data) == IF q = <<>> THEN <<data>> ELSE q

\* enqueue: the new node is linked behind rear
enqueue(q, data) == Append(q, data)
\* dequeue: the value returned (-1 on an empty queue) and the queue left
dequeue_data(q) == IF q = <<>> THEN NONE ELSE Head(q)
dequeue_rest(q) == IF q = <<>> THEN q ELSE Tail(q)
is_empty_queue(q) == q = <<>>

(* Maze program: main, bfs, dfs *)

\* main: one add_edge(graph, u, v) call
MazeAddEdge(src, dest) ==
    /\ prog = "maze" /\ pc = "build"
    /\ adj' = maze_add_edge(adj, src, dest)
    /\ UNCHANGED <<prog, num_nodes, pc, start_node, end_node, out>>
    /\ UNCHANGED runVars /\ UNCHANGED mazeVars
    /\ UNCHANGED gridVars /\ UNCHANGED buildVars /\ UNCHANGED log

\* bfs's init loop and visited[start_node] = true, given what its local
\* arrays hold at entry: every element is overwritten
bfs_init(n, s, p, vis) ==
    [visited |-> [[i \in Nodes(n) |-> FALSE] EXCEPT ![s] = TRUE],
     parent |-> [i \in Nodes(n) |-> NONE]]

\* bfs(graph, s, e, ...) up to its loop: bfs initialises visited and parent,
\* enqueues start_node and marks it visited
BfsCall(s, e) ==
    /\ start_node' = s /\ end_node' = e
    /\ LET r == bfs_init(num_nodes, s, parent, visited)
       IN  visited' = r.visited /\ parent' = r.parent
    /\ queue' = enqueue(<<>>, s)
    /\ path_found_end_node' = NONE
    /\ pc' = "bfs_loop"
    /\ UNCHANGED <<dist, count, u, current, stack, ret, out>>
    /\ UNCHANGED graphVars
    /\ UNCHANGED gridVars /\ UNCHANGED buildVars /\ UNCHANGED log

\* main calls bfs(graph, start_node, end_node, ...) on the graph built so far
BfsStart(s, e) == prog = "maze" /\ pc = "build" /\ BfsCall(s, e)

\* one test of while (!is_empty_queue(q)), the dequeue and the target test
BfsDequeue ==
    /\ pc = "bfs_loop"
    /\ IF is_empty_queue(queue)
       THEN /\ pc' = "bfs_report"
            /\ UNCHANGED <<queue, u, current, path_found_end_node>>
       ELSE LET uu == dequeue_data(queue)
            IN  /\ queue' = dequeue_rest(queue)
                /\ u' = uu
                /\ IF uu = end_node
                   THEN /\ path_found_end_node' = uu
                        /\ pc' = "bfs_report"
                        /\ UNCHANGED current
                   ELSE /\ current' = adj[uu]
                        /\ pc' = "bfs_neighbors"
                        /\ UNCHANGED path_found_end_node
    /\ UNCHANGED <<start_node, end_node, dist, parent, visited, count,
                   stack, ret, out>>
    /\ UNCHANGED graphVars
    /\ UNCHANGED gridVars /\ UNCHANGED buildVars /\ UNCHANGED log

\* bfs_visit with parent[v] = u moved out of the if: written at every visit
bfs_visit_reparent(vis, p, q, uu, v) ==
    IF ~vis[v]
    THEN [visited |-> [vis EXCEPT ![v] = TRUE],
          parent |-> [p EXCEPT ![v] = uu],
          queue |-> enqueue(q, v)]
    ELSE [visited |-> vis, parent |-> [p EXCEPT ![v] = uu], queue |-> q]

\* bfs_visit without visited[v] = true: a node is discovered again each time
\* it is met
bfs_visit_unmarked(vis, p, q, uu, v) ==
    IF ~vis[v]
    THEN [visited |-> vis,
          parent |-> [p EXCEPT ![v] = uu],
          queue |-> enqueue(q, v)]
    ELSE [visited |-> vis, parent |-> p, queue |-> q]

\* the body of bfs's while (temp) for neighbor v of the dequeued node uu:
\* if (!visited[v]) { visited[v] = true; parent[v] = u; enqueue(q, v); }
bfs_visit(vis, p, q, uu, v) ==
    IF ~vis[v]
    THEN [visited |-> [vis EXCEPT ![v] = TRUE],
          parent |-> [p EXCEPT ![v] = uu],
          queue |-> enqueue(q, v)]
    ELSE [visited |-> vis, parent |-> p, queue |-> q]

\* one test of while (temp) and, when it holds, one execution of its body
BfsVisit ==
    /\ pc = "bfs_neighbors"
    /\ IF current = <<>>
       THEN /\ pc' = "bfs_loop"
            /\ UNCHANGED <<visited, parent, queue, current>>
       ELSE LET r == bfs_visit(visited, parent, queue, u, Head(current))
            IN  /\ visited' = r.visited
                /\ parent' = r.parent
                /\ queue' = r.queue
                /\ current' = Tail(current)
                /\ UNCHANGED pc
    /\ UNCHANGED <<start_node, end_node, dist, count, u,
                   path_found_end_node, stack, ret, out>>
    /\ UNCHANGED graphVars
    /\ UNCHANGED gridVars /\ UNCHANGED buildVars /\ UNCHANGED log

\* bfs after the loop: print_path when the target was dequeued, else the
\* "no path" message; free_queue
bfs_report(p, start, found_node) ==
    IF found_node # NONE THEN maze_print_path(p, start, found_node) ELSE no_path

BfsReport ==
    /\ pc = "bfs_report"
    /\ out' = bfs_report(parent, start_node, path_found_end_node)
    /\ log' = Append(log, run_result("bfs", start_node, end_node, <<>>, parent, out'))
    /\ queue' = <<>>
    /\ pc' = "bfs_return"
    /\ UNCHANGED <<start_node, end_node, path_found_end_node, stack, ret>>
    /\ UNCHANGED graphVars /\ UNCHANGED runVars
    /\ UNCHANGED gridVars /\ UNCHANGED buildVars

\* a stack frame of dfs_recursive: its current_node and its list pointer temp
frame(node, temp) == [node |-> node, temp |-> temp]
Top(st) == st[Len(st)]
Pop(st) == SubSeq(st, 1, Len(st) - 1)
SetTop(st, f) == [st EXCEPT ![Len(st)] = f]

\* dfs's init loop, given what its local arrays hold at entry
dfs_init(n, p, vis) ==
    [visited |-> [i \in Nodes(n) |-> FALSE],
     parent |-> [i \in Nodes(n) |-> NONE]]

\* main calls dfs(graph, start_node, end_node, ...); dfs initialises visited
\* and parent and calls dfs_recursive(graph, start_node, ...)
DfsStart ==
    /\ pc = "bfs_return"
    /\ LET r == dfs_init(num_nodes, parent, visited)
       IN  visited' = r.visited /\ parent' = r.parent
    /\ stack' = <<frame(start_node, <<>>)>>
    /\ ret' = FALSE
    /\ out' = nothing_printed
    /\ pc' = "dfs_call"
    /\ UNCHANGED <<start_node, end_node, dist, count, u, current,
                   queue, path_found_end_node>>
    /\ UNCHANGED graphVars
    /\ UNCHANGED gridVars /\ UNCHANGED buildVars /\ UNCHANGED log

\* entry of dfs_recursive: visited[current_node] = true; the target test;
\* temp = graph->adj_lists[current_node]
DfsEnter ==
    /\ pc = "dfs_call"
    /\ LET node == Top(stack).node
       IN  /\ visited' = [visited EXCEPT ![node] = TRUE]
           /\ IF node = end_node
              THEN /\ ret' = TRUE
                   /\ pc' = "dfs_ret"
                   /\ UNCHANGED stack
              ELSE /\ stack' = SetTop(stack, frame(node, adj[node]))
                   /\ pc' = "dfs_neighbors"
                   /\ UNCHANGED ret
    /\ UNCHANGED <<start_node, end_node, dist, parent, count, u, current,
                   queue, path_found_end_node, out>>
    /\ UNCHANGED graphVars
    /\ UNCHANGED gridVars /\ UNCHANGED buildVars /\ UNCHANGED log

\* dfs_neighbor with parent[neighbor] = current_node moved out of the if
dfs_neighbor_reparent(vis, p, node, neighbor) ==
    [step |-> IF ~vis[neighbor] THEN "call" ELSE "next",
     parent |-> [p EXCEPT ![neighbor] = node]]

\* return dfs_recursive(...); in place of if (dfs_recursive(...)) return true;
dfs_after_call_first_only(found) == "return"

\* the result of the recursive call dropped: the loop always goes on
dfs_after_call_ignored(found) == "next"

\* dfs_recursive's treatment of one neighbor: an unvisited neighbor gets
\* current_node as parent and is descended into ("call"); a visited one is
\* passed over ("next")
dfs_neighbor(vis, p, node, neighbor) ==
    IF ~vis[neighbor]
    THEN [step |-> "call", parent |-> [p EXCEPT ![neighbor] = node]]
    ELSE [step |-> "next", parent |-> p]

\* if (dfs_recursive(...)) return true; -- else the loop goes on
dfs_after_call(found) == IF found THEN "return" ELSE "next"

\* one test of while (temp) in the running dfs_recursive: return false when it
\* fails; else set the parent of an unvisited neighbor and call, or advance
DfsNeighbor ==
    /\ pc = "dfs_neighbors"
    /\ LET top == Top(stack)
       IN  IF top.temp = <<>>
           THEN /\ ret' = FALSE
                /\ pc' = "dfs_ret"
                /\ UNCHANGED <<parent, stack>>
           ELSE LET neighbor == Head(top.temp)
                    r == dfs_neighbor(visited, parent, top.node, neighbor)
                IN  /\ parent' = r.parent
                    /\ IF r.step = "call"
                       THEN /\ stack' = Append(stack, frame(neighbor, <<>>))
                            /\ pc' = "dfs_call"
                       ELSE /\ stack' = SetTop(stack,
                                           frame(top.node, Tail(top.temp)))
                            /\ UNCHANGED pc
                    /\ UNCHANGED ret
    /\ UNCHANGED <<start_node, end_node, dist, visited, count, u, current,
                   queue, path_found_end_node, out>>
    /\ UNCHANGED graphVars
    /\ UNCHANGED gridVars /\ UNCHANGED buildVars /\ UNCHANGED log

\* dfs after dfs_recursive returned: print_path or the "no path" message
dfs_report(p, start, end, found) ==
    IF found THEN maze_print_path(p, start, end) ELSE no_path

\* a return of dfs_recursive: to dfs (the outermost call), or to the caller's
\* if (dfs_recursive(...)) return true; ... temp = temp->next;
DfsReturn ==
    /\ pc = "dfs_ret"
    /\ IF Len(stack) = 1
       THEN /\ out' = dfs_report(parent, start_node, end_node, ret)
            /\ log' = Append(log, run_result("dfs", start_node, end_node,
                                             <<>>, parent, out'))
            /\ stack' = <<>>
            /\ pc' = "dfs_return"
       ELSE LET caller == Top(Pop(stack))
            IN  /\ IF dfs_after_call(ret) = "return"
                   THEN /\ stack' = Pop(stack)
                        /\ UNCHANGED pc
                   ELSE /\ stack' = SetTop(Pop(stack),
                                       frame(caller.node, Tail(caller.temp)))
                        /\ pc' = "dfs_neighbors"
                /\ UNCHANGED <<out, log>>
    /\ UNCHANGED <<start_node, end_node, dist, parent, visited, count, u,
                   current, queue, path_found_end_node, ret>>
    /\ UNCHANGED graphVars
    /\ UNCHANGED gridVars /\ UNCHANGED buildVars

\* main's last statements: free_graph(graph); return 0;
MazeFreeGraph ==
    /\ pc = "dfs_return"
    /\ num_nodes' = free_graph.num_nodes
    /\ adj' = free_graph.adj
    /\ pc' = "maze_done"
    /\ UNCHANGED <<prog, start_node, end_node, out, log>>
    /\ UNCHANGED runVars /\ UNCHANGED mazeVars
    /\ UNCHANGED gridVars /\ UNCHANGED buildVars

NextMaze ==
    \/ \E src, dest \in Nodes(num_nodes) :
          NumEntries < 2 * MaxEdges /\ MazeAddEdge(src, dest)
    \/ \E s, e \in Nodes(num_nodes) : BfsStart(s, e)
    \/ BfsDequeue
    \/ BfsVisit
    \/ BfsReport
    \/ DfsStart
    \/ DfsEnter
    \/ DfsNeighbor
    \/ DfsReturn
    \/ MazeFreeGraph

Next == NextTransit \/ NextMaze

Spec == Init /\ [][Next]_vars

-----------------------------------------------------------------------------
(* Reference notions the properties are stated with.  They are defined from *)
(* the stored edges alone, independently of the traversals.                  *)

\* the nodes with an edge from v
EdgeDests(v) ==
    IF prog = "transit"
    THEN {adj[v][i].dest : i \in DOMAIN adj[v]}
    ELSE {adj[v][i] : i \in DOMAIN adj[v]}

\* the nodes joined to s by a directed path of at most k edges
RECURSIVE ReachWithin(_, _)
ReachWithin(s, k) ==
    IF k = 0 THEN {s}
    ELSE LET R == ReachWithin(s, k - 1)
         IN  R \cup UNION {EdgeDests(v) : v \in R}

Reachable(s) == ReachWithin(s, num_nodes)

\* the least number of edges of a path from s to t (t reachable from s)
HopDistance(s, t) ==
    CHOOSE k \in 0 .. num_nodes :
        /\ t \in ReachWithin(s, k)
        /\ \A j \in 0 .. (k - 1) : t \notin ReachWithin(s, j)

\* the stored adjacency entries as <<node, position in the node's list>>
StoredEdges ==
    UNION {{<<w, i>> : i \in DOMAIN adj[w]} : w \in Nodes(num_nodes)}

SetMin(S) == CHOOSE x \in S : \A y \in S : x <= y

\* the least weight sum of a directed path of at most k edges from s to v in
\* the transit graph, or -1 when there is none
RECURSIVE MinCostWithin(_, _, _)
MinCostWithin(s, v, k) ==
    IF k = 0 THEN (IF v = s THEN 0 ELSE -1)
    ELSE LET keep == MinCostWithin(s, v, k - 1)
             via  == {MinCostWithin(s, w, k - 1) + adj[w][i].weight :
                        <<w, i>> \in {x \in StoredEdges :
                                        /\ adj[x[1]][x[2]].dest = v
                                        /\ MinCostWithin(s, x[1], k - 1) # -1}}
             cands == (IF keep = -1 THEN {} ELSE {keep}) \cup via
         IN  IF cands = {} THEN -1 ELSE SetMin(cands)

ShortestDistance(s, v) == MinCostWithin(s, v, num_nodes - 1)

dijkstra_returned == pc \in {"dijkstra_return", "transit_report"}

\* a traversal has initialised its arrays and main has not yet freed the graph
in_traversal ==
    pc \in {"dijkstra_loop", "dijkstra_relax", "dijkstra_return", "transit_report",
            "bfs_loop", "bfs_neighbors", "bfs_report", "bfs_return",
            "dfs_call", "dfs_neighbors", "dfs_ret", "dfs_return"}

\* main has called free_graph
graph_freed == pc \in {"transit_exit", "transit_done", "maze_error", "maze_done"}

-----------------------------------------------------------------------------
(* Properties *)

\* C1: when dijkstra returns, dist[source] = 0 and every node reachable from
\* the source holds the least weight sum over all directed paths from the
\* source, the node the loop never marked visited included.
C1_DijkstraDistancesAreShortest ==
    dijkstra_returned =>
        /\ dist[start_node] = 0
        /\ \A v \in Reachable(start_node) :
              dist[v] = ShortestDistance(start_node, v)

\* C1 witness: dijkstra returned on 3 nodes, and a node it never marked
\* visited is reached over an intermediate node with a positive distance
\* that beats a direct edge from the source
C1_Witness ==
    /\ dijkstra_returned /\ num_nodes = 3
    /\ \E v \in Nodes(num_nodes) :
          /\ ~visited[v] /\ dist[v] > 0 /\ dist[v] # INFINITY
          /\ parent[v] \notin {NONE, start_node}
          /\ v \in EdgeDests(start_node)

\* C2: for a target reachable from the source, the path bfs prints has as
\* many edges as the shortest path from the source to the target.
C2_BfsPathHasMinimumEdges ==
    (pc = "bfs_return" /\ end_node \in Reachable(start_node)) =>
        /\ out.kind = "path"
        /\ Len(out.path) - 1 = HopDistance(start_node, end_node)

\* C2 witness: bfs returned a two-edge path in a graph of 3 nodes
C2_Witness ==
    /\ pc = "bfs_return" /\ num_nodes = 3
    /\ out.kind = "path" /\ Len(out.path) = 3
    /\ HopDistance(start_node, end_node) = 2

\* C3: bfs reports the target found exactly when a directed path joins the
\* source to it; with a source that has no edges it reports no path for every
\* other target.
C3_BfsFoundIffReachable ==
    /\ pc \in {"bfs_report", "bfs_return"} =>
          ((path_found_end_node # NONE) <=> (end_node \in Reachable(start_node)))
    /\ pc = "bfs_return" =>
          /\ (out.kind = "path") <=> (end_node \in Reachable(start_node))
          /\ (out = no_path) <=> (end_node \notin Reachable(start_node))
          /\ (adj[start_node] = <<>> /\ end_node # start_node) => out = no_path

\* C3 witness: bfs returned "no path" from a source without edges, in a graph
\* that has an edge elsewhere
C3_Witness ==
    /\ pc = "bfs_return" /\ out = no_path
    /\ adj[start_node] = <<>> /\ end_node # start_node
    /\ adj[end_node] # <<>>

\* C4: dfs reports success exactly when a directed path joins the source to
\* the target; with a source that has no edges it reports no path for every
\* other target.
C4_DfsFoundIffReachable ==
    pc = "dfs_return" =>
        /\ ret <=> (end_node \in Reachable(start_node))
        /\ (out.kind = "path") <=> (end_node \in Reachable(start_node))
        /\ (out = no_path) <=> (end_node \notin Reachable(start_node))
        /\ (adj[start_node] = <<>> /\ end_node # start_node) => out = no_path

\* C4 witness: dfs succeeded on a target that is not the first neighbor tried:
\* the first neighbor's call returned false and the loop went on
C4_Witness ==
    /\ pc = "dfs_return" /\ ret /\ end_node # start_node
    /\ \E v \in Nodes(num_nodes) :
          /\ v \notin {start_node, end_node}
          /\ visited[v] /\ parent[v] = start_node
          /\ parent[end_node] = start_node

\* C5: when dijkstra returns, a node other than the source is unreachable
\* exactly when its dist is INFINITY and exactly when its parent is -1, and
\* main prints no path for an unreachable destination.
C5_UnreachableIffSentinels ==
    /\ dijkstra_returned =>
          \A v \in Nodes(num_nodes) \ {start_node} :
             /\ (v \notin Reachable(start_node)) <=> (dist[v] = INFINITY)
             /\ (v \notin Reachable(start_node)) <=> (parent[v] = NONE)
    /\ (pc = "transit_report" /\ end_node \notin Reachable(start_node)) =>
          out = unreachable_out

\* C5 witness: main reported on an unreachable destination that has an edge
\* of positive weight from another unreachable node, which the loop selected
C5_Witness ==
    /\ pc = "transit_report" /\ out = unreachable_out
    /\ end_node \notin Reachable(start_node)
    /\ \E w \in Nodes(num_nodes) \ {start_node, end_node} :
          /\ visited[w] /\ dist[w] = INFINITY
          /\ \E i \in DOMAIN adj[w] :
                adj[w][i].dest = end_node /\ adj[w][i].weight > 0

\* C9: after dijkstra returns no edge can be relaxed: every edge (a, b, w)
\* whose source a has a finite dist satisfies dist[b] <= dist[a] + w, the edges
\* leaving the never-visited node included.
C9_NoEdgeRelaxable ==
    dijkstra_returned =>
        \A a \in Nodes(num_nodes) : \A i \in DOMAIN adj[a] :
            dist[a] # INFINITY =>
                dist[adj[a][i].dest] <= dist[a] + adj[a][i].weight

\* C9 witness: dijkstra returned, and the node it never marked visited has a
\* finite dist and an edge to another node
C9_Witness ==
    /\ dijkstra_returned /\ num_nodes = 3
    /\ \E a \in Nodes(num_nodes) :
          /\ ~visited[a] /\ dist[a] # INFINITY
          /\ \E i \in DOMAIN adj[a] : adj[a][i].dest # a

\* following predecessors from v arrives at s in at most k steps
RECURSIVE ChainReaches(_, _, _, _)
ChainReaches(p, v, s, k) ==
    IF v = s THEN TRUE
    ELSE IF k = 0 \/ v = NONE THEN FALSE
    ELSE ChainReaches(p, p[v], s, k - 1)

\* C8: the predecessor map of bfs, dfs and dijkstra holds no cycle: from every
\* node whose predecessor is set, following predecessors arrives at the source
\* in at most num_nodes - 1 steps, so print_path's backward walk ends and
\* collects at most num_nodes nodes.
C8_PredecessorMapAcyclic ==
    /\ in_traversal =>
          /\ \A v \in Nodes(num_nodes) :
                parent[v] # NONE =>
                   /\ v # start_node
                   /\ ChainReaches(parent, v, start_node, num_nodes - 1)
          /\ Len(out.path) <= num_nodes
    /\ out # undefined_out

\* C8 witness: dfs printed a path through all 3 nodes of a graph in which the
\* last node also has an edge back to the source
C8_Witness ==
    /\ pc = "dfs_return" /\ num_nodes = 3
    /\ out.kind = "path" /\ Len(out.path) = 3
    /\ \E i \in DOMAIN adj[end_node] : adj[end_node][i] = start_node

-----------------------------------------------------------------------------
(* The transit scenario: 3 nodes A = 0, B = 1, C = 2 and the edges           *)
(* A->B weight 10, B->C weight 5, A->C weight 20, added in any order.        *)

TransitScenarioEdges == {<<0, 1, 10>>, <<1, 2, 5>>, <<0, 2, 20>>}

HasEdge(e) ==
    \E i \in DOMAIN adj[e[1]] : adj[e[1]][i] = create_adj_list_node(e[2], e[3])

ScenarioInit ==
    /\ prog = "transit"
    /\ num_nodes = 3
    /\ adj = create_graph(num_nodes)
    /\ node_names = (IF prog = "transit" THEN create_names(num_nodes) ELSE <<>>)
    /\ InitRun

ScenarioNext ==
    \/ MainSetNames
    \/ \E e \in TransitScenarioEdges :
          pc = "build" /\ ~HasEdge(e) /\ AddEdge(e[1], e[2], e[3])
    \/ MainRun

ScenarioSpec == ScenarioInit /\ [][ScenarioNext]_vars

ScenarioBuilt == \A e \in TransitScenarioEdges : HasEdge(e)

\* C10: on the scenario graph, whatever the order of the add_edge calls,
\* dijkstra from A gives dist[C] = 15, parent[C] = B, parent[B] = A, and the
\* path printed for C is A -> B -> C.
C10_ScenarioPrefersTwoHops ==
    (dijkstra_returned /\ ScenarioBuilt /\ start_node = 0) =>
        /\ dist[2] = 15 /\ parent[2] = 1 /\ parent[1] = 0
        /\ (pc = "transit_report" /\ end_node = 2) =>
              out = [kind |-> "path", path |-> <<0, 1, 2>>]

\* C10 witness: the path A -> B -> C was printed on the graph in which A's
\* list holds the direct edge to C first, so that dist[C] was 20 before 15
C10_Witness ==
    /\ pc = "transit_report"
    /\ ScenarioBuilt /\ start_node = 0 /\ end_node = 2
    /\ adj[0][1].dest = 2
    /\ out = [kind |-> "path", path |-> <<0, 1, 2>>]
    /\ dist[2] = 15

-----------------------------------------------------------------------------
(* print_path as a function of its arguments: every predecessor map over the *)
(* nodes, every source and every target.                                     *)

PathInit ==
    /\ prog \in {"transit", "maze"}
    /\ num_nodes \in 1 .. MaxNodes
    /\ adj = create_graph(num_nodes)
    /\ pc = "print_path_call"
    /\ start_node \in Nodes(num_nodes)
    /\ end_node \in Nodes(num_nodes) \cup (IF prog = "maze" THEN {NONE} ELSE {})
    /\ parent \in [Nodes(num_nodes) -> Nodes(num_nodes) \cup {NONE}]
    /\ dist = <<>> /\ visited = <<>>
    /\ count = 0 /\ u = NONE /\ current = <<>>
    /\ queue = <<>> /\ path_found_end_node = NONE
    /\ stack = <<>> /\ ret = FALSE
    /\ out = nothing_printed
    /\ node_names = (IF prog = "transit" THEN create_names(num_nodes) ELSE <<>>)
    /\ maze = <<>> /\ row = 0 /\ col = 0 /\ dir = 0
    /\ stderr = <<>> /\ calls = <<>> /\ log = <<>>

\* a call of the transit print_path(graph, parent, start_node, end_node)
PrintPathCall ==
    /\ prog = "transit" /\ pc = "print_path_call"
    /\ out' = print_path(parent, start_node, end_node)
    /\ pc' = "print_path_return"
    /\ UNCHANGED <<start_node, end_node>>
    /\ UNCHANGED graphVars /\ UNCHANGED runVars /\ UNCHANGED mazeVars
    /\ UNCHANGED gridVars /\ UNCHANGED buildVars /\ UNCHANGED log

\* a call of the maze print_path(parent, start_node, end_node, num_cols)
MazePrintPathCall ==
    /\ prog = "maze" /\ pc = "print_path_call"
    /\ out' = maze_print_path(parent, start_node, end_node)
    /\ pc' = "print_path_return"
    /\ UNCHANGED <<start_node, end_node>>
    /\ UNCHANGED graphVars /\ UNCHANGED runVars /\ UNCHANGED mazeVars
    /\ UNCHANGED gridVars /\ UNCHANGED buildVars /\ UNCHANGED log

PathNext == PrintPathCall \/ MazePrintPathCall

PathSpec == PathInit /\ [][PathNext]_vars

print_path_returned ==
    pc \in {"print_path_return", "bfs_return", "dfs_return", "transit_report"}

\* C6: print_path gives "no path" and prints no node whenever
\* parent[target] = -1 and target # source, for every predecessor map, in the
\* transit program and in the maze program alike.
C6_NoPathWhenPredecessorNone ==
    (pc = "print_path_return" /\ end_node # NONE
        /\ parent[end_node] = NONE /\ end_node # start_node) => out = no_path

\* C7: with target = source, print_path names exactly the one node source,
\* whatever the predecessor map holds.
C7_SourceToSourceIsSingleNode ==
    (print_path_returned /\ end_node = start_node) =>
        /\ out.kind \in {"path", "same"}
        /\ out.path = <<start_node>>

\* C7 witness: the maze print_path returned <<source>> for target = source on
\* a map that gives the source a predecessor
C7_Witness ==
    /\ pc = "print_path_return" /\ prog = "maze"
    /\ end_node = start_node /\ parent[start_node] \notin {NONE, start_node}
    /\ out = [kind |-> "path", path |-> <<start_node>>]

-----------------------------------------------------------------------------
(* The maze program from its grid: main's construction loops, then bfs and   *)
(* dfs (src/unnamed/part_000:327-414), on small grids.                       *)

\* the size of the grid and the most wall cells put into it
GridRows == 3
GridCols == 3
MaxWalls == 2

\* main's num_rows and num_cols
num_rows == GridRows
num_cols == GridCols

map_coord_to_index(r, c, ncols) == r * ncols + c
\* the int operators / and %: the quotient is truncated toward zero and the
\* remainder has the sign of the dividend
int_abs(a) == IF a < 0 THEN -a ELSE a
int_div(a, b) ==
    LET q == int_abs(a) \div int_abs(b)
    IN  IF (a < 0) = (b < 0) THEN q ELSE -q
int_rem(a, b) == a - b * int_div(a, b)

map_index_to_coord(index, ncols) ==
    [row |-> int_div(index, ncols), col |-> int_rem(index, ncols)]
is_valid(r, c, nrows, ncols) == r >= 0 /\ r < nrows /\ c >= 0 /\ c < ncols

\* main's direction tables, indexed from 0: up, down, left, right
dr(i) == <<-1, 1, 0, 0>>[i + 1]
dc(i) == <<0, 0, -1, 1>>[i + 1]

Cells == (0 .. num_rows - 1) \X (0 .. num_cols - 1)

\* the grid with walls at the cells of W, 'S' in its first cell and 'E' in its
\* last when they are not walls
grid_with_walls(W) ==
    [r \in 0 .. num_rows - 1 |->
       [c \in 0 .. num_cols - 1 |->
          IF <<r, c>> \in W THEN "#"
          ELSE IF r = 0 /\ c = 0 THEN "S"
          ELSE IF r = num_rows - 1 /\ c = num_cols - 1 THEN "E"
          ELSE " "]]

Grids == {grid_with_walls(W) : W \in {X \in SUBSET Cells : Cardinality(X) <= MaxWalls}}

GridInit ==
    /\ prog = "maze"
    /\ maze \in Grids
    /\ num_nodes = num_rows * num_cols
    /\ adj = create_graph(num_nodes)
    /\ node_names = <<>>
    /\ pc = "grid_build"
    /\ row = 0 /\ col = 0 /\ dir = 0
    /\ start_node = NONE /\ end_node = NONE
    /\ dist = <<>> /\ parent = <<>> /\ visited = <<>>
    /\ count = 0 /\ u = NONE /\ current = <<>>
    /\ queue = <<>> /\ path_found_end_node = NONE
    /\ stack = <<>> /\ ret = FALSE
    /\ out = nothing_printed
    /\ stderr = <<>> /\ calls = <<>> /\ log = <<>>

\* the edge step of cell (r, c) for direction i: add_edge(graph, u, v) when
\* the neighbor is inside the grid and not a wall
grid_edge(a, g, r, c, i) ==
    LET nr == r + dr(i)
        nc == c + dc(i)
    IN  IF is_valid(nr, nc, num_rows, num_cols) /\ g[nr][nc] # "#"
        THEN maze_add_edge(a, map_coord_to_index(r, c, num_cols),
                              map_coord_to_index(nr, nc, num_cols))
        ELSE a

\* one step of main's loops for (r) for (c) for (i): the end of a row, a wall
\* cell skipped, the 'S'/'E' test of a cell on its first direction, one
\* direction of an open cell, or the end of a cell's directions; after the
\* last row, the test that both 'S' and 'E' were found, with its branch
\* { printf(...); free_graph(graph); return 1; }
MazeBuildStep ==
    /\ pc = "grid_build"
    /\ IF row >= num_rows
       THEN /\ IF start_node = NONE \/ end_node = NONE
               THEN /\ out' = maze_error_out
                    /\ num_nodes' = free_graph.num_nodes
                    /\ adj' = free_graph.adj
                    /\ pc' = "maze_error"
               ELSE /\ pc' = "grid_built"
                    /\ UNCHANGED <<num_nodes, adj, out>>
            /\ UNCHANGED <<row, col, dir, start_node, end_node>>
       ELSE IF col >= num_cols
       THEN /\ row' = row + 1 /\ col' = 0
            /\ UNCHANGED <<dir, num_nodes, adj, start_node, end_node, pc, out>>
       ELSE IF maze[row][col] = "#" \/ dir >= 4
       THEN /\ col' = col + 1 /\ dir' = 0
            /\ UNCHANGED <<row, num_nodes, adj, start_node, end_node, pc, out>>
       ELSE /\ start_node' = (IF dir = 0 /\ maze[row][col] = "S"
                              THEN map_coord_to_index(row, col, num_cols)
                              ELSE start_node)
            /\ end_node' = (IF dir = 0 /\ maze[row][col] = "E"
                            THEN map_coord_to_index(row, col, num_cols)
                            ELSE end_node)
            /\ adj' = grid_edge(adj, maze, row, col, dir)
            /\ dir' = dir + 1
            /\ UNCHANGED <<row, col, pc, num_nodes, out>>
    /\ UNCHANGED <<prog, maze, log>>
    /\ UNCHANGED runVars /\ UNCHANGED mazeVars /\ UNCHANGED buildVars

\* main's bfs(graph, start_node, end_node, num_rows, num_cols)
GridBfsStart ==
    /\ pc = "grid_built"
    /\ BfsCall(start_node, end_node)

GridNext ==
    \/ MazeBuildStep
    \/ GridBfsStart
    \/ BfsDequeue
    \/ BfsVisit
    \/ BfsReport
    \/ DfsStart
    \/ DfsEnter
    \/ DfsNeighbor
    \/ DfsReturn
    \/ MazeFreeGraph

GridSpec == GridInit /\ [][GridNext]_vars

\* the cells of two nodes are neighbors in one of the four directions
Adjacent4(a, b) ==
    LET ca == map_index_to_coord(a, num_cols)
        cb == map_index_to_coord(b, num_cols)
    IN  \E i \in 0 .. 3 : cb.row = ca.row + dr(i) /\ cb.col = ca.col + dc(i)

NoWalls == maze # <<>> /\ \A x \in Cells : maze[x[1]][x[2]] # "#"

\* C11: on the grid without walls (3x3, 'S' at (0,0), 'E' at (2,2)), built by
\* main's loops, bfs finds the target and prints a path of
\* num_rows + num_cols - 1 = 5 nodes (4 edges) from (0,0) to (2,2) whose
\* consecutive cells are 4-adjacent.
C11_OpenGridBfsPath ==
    (NoWalls /\ Len(log) >= 1) =>
        LET r == log[1]
            path == r.out.path
        IN  /\ r.alg = "bfs"
            /\ r.start = map_coord_to_index(0, 0, num_cols)
            /\ r.end = map_coord_to_index(num_rows - 1, num_cols - 1, num_cols)
            /\ r.out.kind = "path"
            /\ Len(path) = num_rows + num_cols - 1
            /\ path[1] = r.start /\ path[Len(path)] = r.end
            /\ \A i \in 1 .. Len(path) - 1 : Adjacent4(path[i], path[i + 1])

\* C11 witness: bfs has reported on the grid without walls, every cell's list
\* holding each neighbor twice as the loops add every edge from both ends
C11_Witness ==
    /\ NoWalls /\ pc = "bfs_return" /\ Len(log) = 1
    /\ num_rows = 3 /\ num_cols = 3
    /\ Len(adj[map_coord_to_index(1, 1, num_cols)]) = 8
    /\ Len(log[1].out.path) = 5

-----------------------------------------------------------------------------
(* The traversals called again on the graph they have just searched, with    *)
(* the arrays, queue and flags as the previous call left them.               *)

\* the number of times a traversal is run on one graph
MaxRuns == 2

\* dijkstra(graph, start_index, dist, parent) once more, same source
DijkstraAgain ==
    /\ prog = "transit" /\ pc = "transit_report"
    /\ Len(log) < MaxRuns
    /\ DijkstraCall(start_node)

\* bfs(graph, start_node, end_node, ...) once more (dfs follows as in main)
BfsAgain ==
    /\ prog = "maze" /\ pc = "dfs_return"
    /\ Len(log) < 2 * MaxRuns
    /\ BfsCall(start_node, end_node)

RepeatNext == Next \/ DijkstraAgain \/ BfsAgain

RepeatSpec == Init /\ [][RepeatNext]_vars

\* C12: two runs of the same traversal on the same graph with the same source
\* and target hand back the same predecessor map, the same distance map and
\* the same printed path, whatever the earlier run left in the arrays.
C12_RepeatedRunsAgree ==
    \A i, j \in 1 .. Len(log) :
        (/\ log[i].alg = log[j].alg
         /\ log[i].start = log[j].start
         /\ log[i].end = log[j].end)
            => log[i] = log[j]

\* C12 witness: bfs and dfs each ran twice on a graph where bfs prints the
\* direct edge and dfs a path of three nodes
C12_Witness ==
    /\ prog = "maze" /\ pc = "dfs_return" /\ Len(log) = 4
    /\ log[3].alg = "bfs" /\ log[4].alg = "dfs"
    /\ log[3].out.kind = "path" /\ Len(log[3].out.path) = 2
    /\ log[4].out.kind = "path" /\ Len(log[4].out.path) = 3
    /\ log[3].parent # log[4].parent

-----------------------------------------------------------------------------
(* Graph construction as an interface: create_graph, add_edge and            *)
(* set_node_name called with any arguments, indices outside [0, num_nodes)   *)
(* and node counts <= 0 included.                                            *)

\* the number of add_edge and set_node_name calls made on one graph
MaxCalls == 3

\* the texts given to set_node_name
Names == {"A", "B"}

\* the indices passed to add_edge and set_node_name: one below and one above
\* the valid range, and the valid ones
Indices(n) == -1 .. n

\* create_graph's malloc(num_nodes * sizeof(...)): a negative count converts
\* to a size no allocation can satisfy; a size of 0 may give NULL or a block
\* (implementation-defined); a positive count within the bounds is served
malloc_is_null(n) ==
    IF n < 0 THEN {TRUE} ELSE IF n = 0 THEN {TRUE, FALSE} ELSE {FALSE}

\* the text create_graph hands to perror before exit(EXIT_FAILURE)
alloc_message(p) ==
    IF p = "transit"
    THEN "Erro ao alocar listas de adjacencia ou nomes dos nos"
    ELSE "Erro ao alocar lista de adjacencia"

\* a char* overwritten with something that is not a name
garbage_pointer == <<"(not a string)">>

\* graph->adj_lists[i] read and written with i outside the array: the store
\* may fault, may land outside every field of the graph, or may land in the
\* node_names block allocated next to adj_lists
wild_store(names) ==
    {[pc |-> "crashed", node_names |-> names],
     [pc |-> "undefined", node_names |-> names]}
    \cup {[pc |-> "undefined",
           node_names |-> [names EXCEPT ![i] = garbage_pointer]] :
             i \in DOMAIN names}

BuildInit ==
    /\ prog \in {"transit", "maze"}
    /\ pc = "start"
    /\ num_nodes = 0 /\ adj = <<>> /\ node_names = <<>>
    /\ start_node = NONE /\ end_node = NONE
    /\ dist = <<>> /\ parent = <<>> /\ visited = <<>>
    /\ count = 0 /\ u = NONE /\ current = <<>>
    /\ queue = <<>> /\ path_found_end_node = NONE
    /\ stack = <<>> /\ ret = FALSE
    /\ out = nothing_printed
    /\ maze = <<>> /\ row = 0 /\ col = 0 /\ dir = 0
    /\ stderr = <<>> /\ calls = <<>> /\ log = <<>>

\* a call create_graph(n): perror and exit when an allocation fails, else a
\* graph of n empty lists (and n NULL names in the transit program)
CreateGraph(n) ==
    /\ pc = "start"
    /\ calls' = Append(calls, [op |-> "create_graph", num_nodes |-> n])
    /\ \E null \in malloc_is_null(n) :
          IF null
          THEN /\ stderr' = Append(stderr, alloc_message(prog))
               /\ pc' = "exited"
               /\ UNCHANGED <<num_nodes, adj, node_names>>
          ELSE /\ num_nodes' = n
               /\ adj' = create_graph(n)
               /\ node_names' = (IF prog = "transit" THEN create_names(n) ELSE <<>>)
               /\ pc' = "build"
               /\ UNCHANGED stderr
    /\ UNCHANGED <<prog, start_node, end_node, out, log>>
    /\ UNCHANGED runVars /\ UNCHANGED mazeVars /\ UNCHANGED gridVars

\* a call of the transit add_edge(graph, src, dest, weight) with any indices:
\* dest is stored as it is; src indexes adj_lists unchecked
CallAddEdge(src, dest, weight) ==
    /\ prog = "transit" /\ pc = "build" /\ Len(calls) <= MaxCalls
    /\ calls' = Append(calls, [op |-> "add_edge", src |-> src, dest |-> dest,
                               weight |-> weight])
    /\ IF src \in Nodes(num_nodes)
       THEN /\ adj' = add_edge(adj, src, dest, weight)
            /\ UNCHANGED <<pc, node_names>>
       ELSE /\ \E o \in wild_store(node_names) :
                  pc' = o.pc /\ node_names' = o.node_names
            /\ UNCHANGED adj
    /\ UNCHANGED <<prog, num_nodes, start_node, end_node, out, stderr, log>>
    /\ UNCHANGED runVars /\ UNCHANGED mazeVars /\ UNCHANGED gridVars

\* one half of the maze add_edge, linking a node for `to` in front of
\* adj_lists[at] with `at` unchecked, from an outcome o of what ran before.
\* Inside the array the list gets its node.  Outside it the access is
\* undefined behaviour: it faults there, or it passes (the store landing
\* outside every list) and the function goes on.
maze_half(o, n, at, to) ==
    IF o.pc = "crashed" THEN {o}
    ELSE IF at \in Nodes(n)
         THEN {[pc |-> o.pc, adj |-> maze_link_front(o.adj, at, to)]}
         ELSE {[pc |-> "crashed", adj |-> o.adj],
               [pc |-> "undefined", adj |-> o.adj]}

\* the maze add_edge(graph, src, dest) with any indices: the half for src
\* (lines 153-155), then the half for dest (lines 158-160)
maze_add_edge_any(a, n, src, dest) ==
    IF src \in Nodes(n) /\ dest \in Nodes(n)
    THEN {[pc |-> "build", adj |-> maze_add_edge(a, src, dest)]}
    ELSE UNION {maze_half(o, n, dest, src) :
                  o \in maze_half([pc |-> "build", adj |-> a], n, src, dest)}

\* a call of the maze add_edge(graph, src, dest) with any indices
CallMazeAddEdge(src, dest) ==
    /\ prog = "maze" /\ pc = "build" /\ Len(calls) <= MaxCalls
    /\ calls' = Append(calls, [op |-> "add_edge", src |-> src, dest |-> dest])
    /\ \E o \in maze_add_edge_any(adj, num_nodes, src, dest) :
          pc' = o.pc /\ adj' = o.adj
    /\ UNCHANGED <<prog, num_nodes, start_node, end_node, out, node_names,
                   stderr, log>>
    /\ UNCHANGED runVars /\ UNCHANGED mazeVars /\ UNCHANGED gridVars

\* a call set_node_name(graph, node_index, name)
CallSetNodeName(node_index, name) ==
    /\ prog = "transit" /\ pc = "build" /\ Len(calls) <= MaxCalls
    /\ calls' = Append(calls, [op |-> "set_node_name",
                               node_index |-> node_index, name |-> name])
    /\ LET r == set_node_name(node_names, num_nodes, node_index, name)
       IN  /\ node_names' = r.node_names
           /\ stderr' = stderr \o r.err
    /\ UNCHANGED <<prog, num_nodes, adj, pc, start_node, end_node, out, log>>
    /\ UNCHANGED runVars /\ UNCHANGED mazeVars /\ UNCHANGED gridVars

BuildNext ==
    \/ \E n \in -1 .. MaxNodes : CreateGraph(n)
    \/ \E src, dest \in Indices(num_nodes), weight \in Weights :
          CallAddEdge(src, dest, weight)
    \/ \E src, dest \in Indices(num_nodes) : CallMazeAddEdge(src, dest)
    \/ \E node_index \in Indices(num_nodes), name \in Names :
          CallSetNodeName(node_index, name)

BuildSpec == BuildInit /\ [][BuildNext]_vars

\* the call a step makes, when it makes one
MakesCall == Len(calls') = Len(calls) + 1
TheCall == calls'[Len(calls')]

\* C13: a set_node_name call with an index outside [0, num_nodes) writes its
\* error line, returns (the program goes on building) and leaves every name
\* and every adjacency list as it was; with an index inside the range the
\* node's name becomes the given text and no other name changes.
C13_SetNodeNameChecksIndex ==
    [][(MakesCall /\ TheCall.op = "set_node_name") =>
          /\ adj' = adj /\ pc' = "build"
          /\ IF TheCall.node_index \in Nodes(num_nodes)
             THEN /\ node_names'[TheCall.node_index] = <<TheCall.name>>
                  /\ \A i \in Nodes(num_nodes) \ {TheCall.node_index} :
                        node_names'[i] = node_names[i]
                  /\ stderr' = stderr
             ELSE /\ stderr' = Append(stderr, invalid_index_message)
                  /\ node_names' = node_names]_vars

\* C13 witness: a node was named twice with different texts, the second one
\* is the name it has, and a call with an invalid index was reported
C13_Witness ==
    /\ pc = "build" /\ stderr = <<invalid_index_message>>
    /\ \E i, j \in 1 .. Len(calls) :
          /\ i < j
          /\ calls[i].op = "set_node_name" /\ calls[j].op = "set_node_name"
          /\ calls[i].node_index = calls[j].node_index
          /\ calls[i].node_index \in Nodes(num_nodes)
          /\ calls[i].name # calls[j].name
          /\ node_names[calls[j].node_index] = <<calls[j].name>>

\* an add_edge call names a node that the graph does not have
BadEdgeCall ==
    /\ MakesCall /\ TheCall.op = "add_edge"
    /\ TheCall.src \notin Nodes(num_nodes) \/ TheCall.dest \notin Nodes(num_nodes)

\* the destinations stored in the lists of a
StoredDests(a) ==
    UNION {{IF prog = "transit" THEN a[v][i].dest ELSE a[v][i] :
               i \in 1 .. Len(a[v])} : v \in DOMAIN a}

\* C14: an add_edge call with src or dest outside [0, num_nodes) and a
\* create_graph call with num_nodes <= 0 are reported (something is written
\* to stderr), the lists and names built so far stay as they were, and no
\* list ever holds a destination outside [0, num_nodes).
C14_ConstructionErrorsReported ==
    [][/\ BadEdgeCall =>
            /\ stderr' # stderr
            /\ adj' = adj /\ node_names' = node_names
       /\ (MakesCall /\ TheCall.op = "create_graph" /\ TheCall.num_nodes <= 0) =>
            stderr' # stderr
       /\ StoredDests(adj') \subseteq Nodes(num_nodes')]_vars

\* what one call puts into the list of node v, in the order it links it
Inserted(c, v) ==
    IF c.op # "add_edge" THEN <<>>
    ELSE IF prog = "transit"
         THEN (IF c.src = v
               THEN <<create_adj_list_node(c.dest, c.weight)>> ELSE <<>>)
         ELSE (IF c.src = v THEN <<c.dest>> ELSE <<>>)
              \o (IF c.dest = v THEN <<c.src>> ELSE <<>>)

\* everything the calls cs put into the list of v, oldest first
RECURSIVE InsertedBy(_, _)
InsertedBy(cs, v) ==
    IF cs = <<>> THEN <<>> ELSE Inserted(Head(cs), v) \o InsertedBy(Tail(cs), v)

\* C20: while construction goes on, the list of every node holds exactly the
\* entries the add_edge calls put into it, one per insertion with nothing
\* merged, the most recent first; so a transit add_edge(src, dest, w) adds
\* one entry in front of src's list alone, and a maze add_edge(u, v) adds v
\* in front of u's list and u in front of v's and nothing else.
C20_ListsAreCallsReversed ==
    pc = "build" =>
        \A v \in Nodes(num_nodes) : adj[v] = Reverse(InsertedBy(calls, v))

\* C20 witness: three add_edge calls left three entries in one list, the
\* first and the last call being the same edge and the middle one another
C20_Witness ==
    /\ pc = "build"
    /\ \E v \in Nodes(num_nodes) :
          /\ Len(adj[v]) = 3
          /\ adj[v][1] = adj[v][3] /\ adj[v][1] # adj[v][2]

-----------------------------------------------------------------------------
(* The selection step of dijkstra (src/projeto2.c:131-145).                *)

\* the unsettled nodes holding the least dist among the unsettled
MinUnsettled == {v \in Nodes(num_nodes) :
                    /\ ~visited[v]
                    /\ \A w \in Nodes(num_nodes) : ~visited[w] => dist[v] <= dist[w]}

\* the step of DijkstraSelect that marks a node
SelectsNode == pc = "dijkstra_loop" /\ pc' = "dijkstra_relax"

\* C15: in each iteration of dijkstra's loop, when several unsettled nodes
\* share the least (finite) known distance, the node that is selected is the
\* one of lowest index.  The scan compares with <=, so every later node of
\* equal distance replaces the earlier one and the highest index is taken.
C15_TieSelectsLowestIndex ==
    [][(SelectsNode /\ dist[u'] # INFINITY)
          => \A v \in MinUnsettled : u' <= v]_vars

\* C16: when every unsettled node is unreachable the scan finds no node and
\* the loop stops, so no node is ever marked settled while its distance is
\* the sentinel.  The scan starts from min_dist = INFINITY and compares with
\* <=, so it always finds a node while one is unsettled: u == -1 never holds
\* and unreachable nodes are marked.
C16_NoUnreachableSettled ==
    pc \in {"dijkstra_loop", "dijkstra_relax", "dijkstra_return", "transit_report"} =>
        \A v \in Nodes(num_nodes) : visited[v] => dist[v] # INFINITY

\* the distance dijkstra must end with for v: the least weight sum of a
\* path from s, or the sentinel when there is no path
FinalDistance(s, v) ==
    IF v \in Reachable(s) THEN ShortestDistance(s, v) ELSE INFINITY

\* a step inside one run of dijkstra's loop
DijkstraLoopStep == pc \in {"dijkstra_loop", "dijkstra_relax"}

\* C17: with non-negative weights, a node that is selected and marked
\* settled already holds its final distance, no node settled before it has
\* a greater distance, and no step of the run writes dist or parent of a
\* settled node.
C17_SettledIsFinal ==
    [][DijkstraLoopStep =>
          /\ SelectsNode =>
                /\ dist[u'] = FinalDistance(start_node, u')
                /\ \A v \in Nodes(num_nodes) : visited[v] => dist[v] <= dist[u']
          /\ \A v \in Nodes(num_nodes) :
                visited[v] => (dist'[v] = dist[v] /\ parent'[v] = parent[v])]_vars

\* C17 witness: the relaxation is at an edge that leads back into a settled
\* node, from a node settled at a positive finite distance that a direct
\* edge from the source to another node does not beat
C17_Witness ==
    /\ pc = "dijkstra_relax" /\ current # <<>>
    /\ u # start_node /\ dist[u] > 0 /\ dist[u] # INFINITY
    /\ visited[Head(current).dest] /\ Head(current).dest # u
    /\ \E v \in Nodes(num_nodes) :
          ~visited[v] /\ dist[v] > dist[u] /\ dist[v] # INFINITY

-----------------------------------------------------------------------------
(* The steps of one bfs run (src/unnamed/part_000:230-254).                *)

\* a step of bfs between its initialisation and its return
BfsStep == pc \in {"bfs_loop", "bfs_neighbors", "bfs_report"}

NoDuplicates(q) == \A i, j \in 1 .. Len(q) : q[i] = q[j] => i = j

\* C18: in a bfs run a node is enqueued only at its first discovery (it was
\* unvisited, it becomes visited, and visited is never reset, so the queue
\* never holds a node twice), parent[v] is written only then and with the
\* node being expanded, parent[source] stays -1, and once the target has been
\* dequeued nothing is expanded, enqueued or given a predecessor.
C18_BfsDiscoversOnce ==
    [][BfsStep =>
          /\ \A v \in Nodes(num_nodes) :
                /\ visited[v] => visited'[v]
                /\ parent'[v] # parent[v] =>
                      /\ ~visited[v] /\ visited'[v]
                      /\ parent[v] = NONE /\ parent'[v] = u
                      /\ pc = "bfs_neighbors" /\ queue' = Append(queue, v)
          /\ Len(queue') > Len(queue) =>
                /\ pc = "bfs_neighbors"
                /\ \E v \in Nodes(num_nodes) :
                      /\ queue' = Append(queue, v)
                      /\ ~visited[v] /\ visited'[v] /\ parent'[v] = u
          /\ NoDuplicates(queue')
          /\ \A i \in 1 .. Len(queue') : visited'[queue'[i]]
          /\ parent'[start_node] = NONE
          /\ path_found_end_node # NONE =>
                /\ parent' = parent /\ visited' = visited
                /\ u' = u /\ current' = current
                /\ Len(queue') <= Len(queue)]_vars

\* C18 witness: the target was dequeued while another discovered node was
\* still waiting in the queue, in a graph where the source's list names a
\* neighbor twice
C18_Witness ==
    /\ pc = "bfs_report" /\ path_found_end_node # NONE
    /\ queue # <<>>
    /\ \E i, j \in 1 .. Len(adj[start_node]) :
          i # j /\ adj[start_node][i] = adj[start_node][j]

-----------------------------------------------------------------------------
(* The steps of one dfs run (src/unnamed/part_000:276-296).                *)

\* a step of dfs between its initialisation and its return to main
DfsStep == pc \in {"dfs_call", "dfs_neighbors", "dfs_ret"}

\* C19: in a dfs run parent[v] is written only for an unvisited v that had no
\* parent, with the calling node, at the call that descends into v; visited
\* never falls and parent[source] stays -1; and once the target is marked
\* visited every step is a return of true to the caller: nothing more is
\* marked visited, no parent is written and no neighbor is looked at.
C19_DfsStopsAtTarget ==
    [][DfsStep =>
          /\ \A v \in Nodes(num_nodes) :
                /\ visited[v] => visited'[v]
                /\ parent'[v] # parent[v] =>
                      /\ ~visited[v] /\ parent[v] = NONE
                      /\ pc = "dfs_neighbors" /\ pc' = "dfs_call"
                      /\ parent'[v] = Top(stack).node
                      /\ Top(stack').node = v
          /\ parent'[start_node] = NONE
          /\ visited[end_node] =>
                /\ visited' = visited /\ parent' = parent
                /\ pc = "dfs_ret" /\ ret /\ ret'
                /\ pc' \in {"dfs_ret", "dfs_return"}
                /\ stack' = Pop(stack)]_vars

\* C19 witness: a call that reached the target has returned true to a caller
\* whose list still holds a neighbor not yet visited
C19_Witness ==
    /\ pc = "dfs_ret" /\ ret /\ visited[end_node]
    /\ Len(stack) = 1
    /\ \E i \in 1 .. Len(Top(stack).temp) :
          /\ i > 1
          /\ ~visited[Top(stack).temp[i]]

-----------------------------------------------------------------------------
(* The printed node sequences as paths of the stored graph.                  *)

\* the traversal of log entry r reported its target as reached
ReportedReached(r) ==
    IF r.alg = "dijkstra" THEN r.dist[r.end] # INFINITY
    ELSE r.out.kind # "nopath"

\* q is a simple path of the stored graph from s to t
IsSimplePath(q, s, t) ==
    /\ Len(q) >= 1 /\ q[1] = s /\ q[Len(q)] = t
    /\ \A i, j \in 1 .. Len(q) : q[i] = q[j] => i = j
    /\ \A i \in 1 .. Len(q) - 1 : q[i + 1] \in EdgeDests(q[i])

\* C21: whenever bfs, dfs or dijkstra reports its target as reached, the
\* node sequence printed from its predecessor map starts at the source, ends
\* at the target, repeats no node, and every consecutive pair (a, b) has b in
\* the adjacency list of a.
C21_PrintedPathIsSimplePath ==
    ~graph_freed =>
        \A k \in 1 .. Len(log) :
            ReportedReached(log[k]) =>
                /\ log[k].out.kind \in {"path", "same"}
                /\ IsSimplePath(log[k].out.path, log[k].start, log[k].end)

\* C21 witness: dijkstra printed a path of three nodes over directed edges
\* neither of which has its reverse in the graph
C21_Witness ==
    /\ pc = "transit_report" /\ Len(log) = 1 /\ log[1].alg = "dijkstra"
    /\ log[1].out.kind = "path" /\ Len(log[1].out.path) = 3
    /\ LET q == log[1].out.path
       IN  q[1] \notin EdgeDests(q[2]) /\ q[2] \notin EdgeDests(q[3])

-----------------------------------------------------------------------------
(* Predecessors and distances of dijkstra against the stored weights.        *)

\* the weights of the stored edges from a to b
EdgeWeights(a, b) ==
    {adj[a][i].weight : i \in {k \in DOMAIN adj[a] : adj[a][k].dest = b}}

\* the weight counted for the hop a -> b: the least one among parallel edges
HopWeight(a, b) == SetMin(EdgeWeights(a, b))

\* the sum of the hop weights along the node sequence q
RECURSIVE PathWeight(_)
PathWeight(q) ==
    IF Len(q) <= 1 THEN 0
    ELSE HopWeight(q[1], q[2]) + PathWeight(Tail(q))

\* dijkstra has been called and main has not yet freed the graph
InDijkstraRun ==
    pc \in {"dijkstra_loop", "dijkstra_relax", "dijkstra_return", "transit_report"}

\* C22: at every point of a dijkstra run (weights >= 0), a node v with
\* parent[v] = u # -1 has u settled and a stored edge u -> v of weight
\* dist[v] - dist[u]; and the path printed for a reached target has weight
\* sum dist[target].
C22_ParentEdgeCarriesDistance ==
    /\ InDijkstraRun =>
          \A v \in Nodes(num_nodes) :
              parent[v] # NONE =>
                  /\ visited[parent[v]]
                  /\ dist[v] - dist[parent[v]] \in EdgeWeights(parent[v], v)
    /\ ~graph_freed =>
          \A k \in 1 .. Len(log) :
              (log[k].alg = "dijkstra" /\ log[k].out.kind = "path") =>
                  PathWeight(log[k].out.path) = log[k].dist[log[k].end]

\* C22 witness: dijkstra printed a path of three nodes of positive weight
\* sum although a direct, heavier edge joins the source to the target
C22_Witness ==
    /\ pc = "transit_report" /\ Len(log) = 1
    /\ log[1].out.kind = "path" /\ Len(log[1].out.path) = 3
    /\ dist[end_node] > 0
    /\ \E w \in EdgeWeights(start_node, end_node) : w > dist[end_node]

-----------------------------------------------------------------------------
(* dijkstra on weights up to INT_MAX: the 32-bit sum dist[u] + weight.       *)

\* the weights given to add_edge here: small ones, half of INT_MAX, and the
\* two largest values of int
LargeWeights == {0, 1, INFINITY \div 2, INFINITY - 1, INFINITY}

LargeInit ==
    /\ prog = "transit"
    /\ num_nodes \in 1 .. MaxNodes
    /\ adj = create_graph(num_nodes)
    /\ node_names = create_names(num_nodes)
    /\ InitRun

LargeNext ==
    \/ MainSetNames
    \/ \E src, dest \in Nodes(num_nodes), weight \in LargeWeights :
          NumEntries < MaxEdges /\ AddEdge(src, dest, weight)
    \/ MainRun

LargeSpec == LargeInit /\ [][LargeNext]_vars

\* a + b for a, b in 0 .. INT_MAX, stopping at INT_MAX
capped_sum(a, b) == IF a > INFINITY - b THEN INFINITY ELSE a + b

\* the sum of the weights in one adjacency list, capped at INT_MAX
RECURSIVE ListWeight(_)
ListWeight(l) ==
    IF l = <<>> THEN 0 ELSE capped_sum(Head(l).weight, ListWeight(Tail(l)))

\* the sum of the weights of the edges in the lists of nodes 0 .. n - 1,
\* capped at INT_MAX
RECURSIVE GraphWeight(_)
GraphWeight(n) ==
    IF n = 0 THEN 0 ELSE capped_sum(ListWeight(adj[n - 1]), GraphWeight(n - 1))

\* the sum of all edge weights of the graph is below INT_MAX
WeightSumBelowMax == GraphWeight(num_nodes) < INFINITY

\* C23: with weights >= 0 whose sum over the whole graph is below INT_MAX,
\* every evaluation of dist[u] + weight in dijkstra has dist[u] # INFINITY
\* and stays within int, and at return no node reachable from the source
\* holds the sentinel INFINITY as its distance.
C23_NoOverflowBelowMaxSum ==
    WeightSumBelowMax =>
        /\ (pc = "dijkstra_relax" /\ current # <<>>) =>
              \A ev \in sum_evaluated(dist, visited, u, Head(current)) :
                  ev[1] # INFINITY /\ ~add_overflows(ev[1], ev[2])
        /\ dijkstra_returned =>
              \A v \in Reachable(start_node) : dist[v] # INFINITY

\* C23 witness: dijkstra returned on a graph of weight sum below INT_MAX
\* where a node two hops from the source ends with distance INT_MAX - 1
C23_Witness ==
    /\ dijkstra_returned /\ WeightSumBelowMax
    /\ \E v \in Nodes(num_nodes) :
          /\ dist[v] = INFINITY - 1
          /\ parent[v] # NONE /\ parent[v] # start_node
          /\ dist[parent[v]] = INFINITY \div 2

====
